---- MODULE Spec2Model ----
(***************************************************************************)
(* Model of src/phonenumber.py: the phone-number extractor                 *)
(* (extract_phone_numbers, lines 22-54) and the batch loop of main         *)
(* (lines 103-143).  Strings are TLA+ strings; characters are strings of   *)
(* length one.                                                             *)
(***************************************************************************)
EXTENDS Integers, Sequences, FiniteSets, TLC

(***************************************************************************)
(* Bounds of the model.                                                    *)
(***************************************************************************)
\* largest number of rows of an input table
MaxRows == 2
\* largest number of tokens a generated page text is made of
MaxTokens == 3

(***************************************************************************)
(* String helpers: str.strip, str.startswith, str.join.                    *)
(***************************************************************************)
Ch(s, i) == SubSeq(s, i, i)

Whitespace == {" ", "\t", "\n"}

Digits == {"0", "1", "2", "3", "4", "5", "6", "7", "8", "9"}

RECURSIVE lstrip(_)
lstrip(s) ==
    IF Len(s) > 0 /\ Ch(s, 1) \in Whitespace THEN lstrip(SubSeq(s, 2, Len(s))) ELSE s

RECURSIVE rstrip(_)
rstrip(s) ==
    IF Len(s) > 0 /\ Ch(s, Len(s)) \in Whitespace
    THEN rstrip(SubSeq(s, 1, Len(s) - 1))
    ELSE s

\* str.strip()
strip(s) == rstrip(lstrip(s))

\* str.startswith(prefix)
startswith(s, prefix) ==
    Len(s) >= Len(prefix) /\ SubSeq(s, 1, Len(prefix)) = prefix

\* sep.join(list)
RECURSIVE join(_, _)
join(sep, list) ==
    IF Len(list) = 0 THEN ""
    ELSE IF Len(list) = 1 THEN list[1]
    ELSE list[1] \o sep \o join(sep, Tail(list))

(***************************************************************************)
(* PHONE_REGEX (lines 15-20), compiled with re.VERBOSE: a sequence of      *)
(* single-character items, each with a greedy {min,max} quantifier.  The   *)
(* country code is an optional non-capturing group; the area code, despite *)
(* its comment, is not optional.                                           *)
(***************************************************************************)
InClass(c, cls) ==
    CASE cls = "plus"   -> c = "+"
      [] cls = "digit"  -> c \in Digits
      [] cls = "sep"    -> c \in {"-", "."} \cup Whitespace
      [] cls = "lparen" -> c = "("
      [] cls = "rparen" -> c = ")"

\* (?:\+?\d{1,3}[-.\s]?)?
CountryCode ==
    << [cls |-> "plus",  min |-> 0, max |-> 1],
       [cls |-> "digit", min |-> 1, max |-> 3],
       [cls |-> "sep",   min |-> 0, max |-> 1] >>

\* \(?\d{2,3}\)?[-.\s]?  \d{3,4}[-.\s]?  \d{3,4}
Rest ==
    << [cls |-> "lparen", min |-> 0, max |-> 1],
       [cls |-> "digit",  min |-> 2, max |-> 3],
       [cls |-> "rparen", min |-> 0, max |-> 1],
       [cls |-> "sep",    min |-> 0, max |-> 1],
       [cls |-> "digit",  min |-> 3, max |-> 4],
       [cls |-> "sep",    min |-> 0, max |-> 1],
       [cls |-> "digit",  min |-> 3, max |-> 4] >>

\* a variant of the pattern in which the area code is optional, as its
\* comment says, and every digit group is followed by an optional separator
LooseRest ==
    << [cls |-> "lparen", min |-> 0, max |-> 1],
       [cls |-> "digit",  min |-> 0, max |-> 3],
       [cls |-> "rparen", min |-> 0, max |-> 1],
       [cls |-> "sep",    min |-> 0, max |-> 1],
       [cls |-> "digit",  min |-> 3, max |-> 4],
       [cls |-> "sep",    min |-> 0, max |-> 1],
       [cls |-> "digit",  min |-> 3, max |-> 4],
       [cls |-> "sep",    min |-> 0, max |-> 1] >>

\* number of consecutive characters of class cls from pos, at most max
RECURSIVE Run(_, _, _, _)
Run(cls, text, pos, max) ==
    IF max = 0 \/ pos > Len(text) \/ ~InClass(Ch(text, pos), cls) THEN 0
    ELSE 1 + Run(cls, text, pos + 1, max - 1)

\* The backtracking matcher: the position after the match of items[k..]
\* at pos that the engine finds first (greedy counts first), 0 if none.
RECURSIVE MatchItems(_, _, _, _)
RECURSIVE TryCount(_, _, _, _, _)
MatchItems(items, k, text, pos) ==
    IF k > Len(items) THEN pos
    ELSE TryCount(items, k, text, pos, Run(items[k].cls, text, pos, items[k].max))

TryCount(items, k, text, pos, j) ==
    IF j < items[k].min THEN 0
    ELSE LET r == MatchItems(items, k + 1, text, pos + j)
         IN  IF r # 0 THEN r ELSE TryCount(items, k, text, pos, j - 1)

LooseMatchAt(text, pos) ==
    LET r == MatchItems(CountryCode \o LooseRest, 1, text, pos)
    IN  IF r # 0 THEN r ELSE MatchItems(LooseRest, 1, text, pos)

\* one match attempt of PHONE_REGEX at pos: the optional group is tried
\* first, and skipped only when no match with it exists
MatchAt(text, pos) ==
    LET r == MatchItems(CountryCode \o Rest, 1, text, pos)
    IN  IF r # 0 THEN r ELSE MatchItems(Rest, 1, text, pos)

\* re.findall(PHONE_REGEX, text, re.VERBOSE) (line 46): the leftmost
\* non-overlapping matches, in order; no capturing group, so whole matches
RECURSIVE findallFrom(_, _)
findallFrom(text, pos) ==
    IF pos > Len(text) THEN << >>
    ELSE LET e == MatchAt(text, pos)
         IN  IF e # 0 THEN << SubSeq(text, pos, e - 1) >> \o findallFrom(text, e)
             ELSE findallFrom(text, pos + 1)

findall(text) == findallFrom(text, 1)


\* soup.get_text() of BeautifulSoup(response.text, 'html.parser') (lines
\* 42-43), reduced to what the model's pages need: tags are dropped, the
\* text between them is kept
RECURSIVE get_text_from(_, _, _)
get_text_from(html, pos, intag) ==
    IF pos > Len(html) THEN ""
    ELSE LET c == Ch(html, pos)
         IN  IF intag THEN get_text_from(html, pos + 1, c # ">")
             ELSE IF c = "<" THEN get_text_from(html, pos + 1, TRUE)
             ELSE c \o get_text_from(html, pos + 1, FALSE)

get_text(html) == get_text_from(html, 1, FALSE)

\* [num.strip() for num in phone_numbers if len(num) > 7] (line 47)
RECURSIVE stripped_long(_)
stripped_long(phone_numbers) ==
    IF phone_numbers = << >> THEN << >>
    ELSE LET num == Head(phone_numbers)
         IN  (IF Len(num) > 7 THEN << strip(num) >> ELSE << >>)
             \o stripped_long(Tail(phone_numbers))

Range(f) == {f[x] : x \in DOMAIN f}

\* list(S) of a Python set S: every order of its elements is possible
Orderings(S) ==
    {q \in [1..Cardinality(S) -> S] : \A a, b \in 1..Cardinality(S) : q[a] = q[b] => a = b}

\* the comprehension of line 47 kept as the list it is, without set()
cleaned_numbers_list(phone_numbers) == {stripped_long(phone_numbers)}

\* cleaned_numbers = list(set([...])) (line 47): the lists the statement
\* can produce
cleaned_numbers(phone_numbers) == Orderings(Range(stripped_long(phone_numbers)))

(***************************************************************************)
(* The fetcher, extract_phone_numbers (lines 22-54).                       *)
(***************************************************************************)
\* lines 26-27: the URL the function goes on with
normalize_unconditional(url) == "https://" \o url

normalize(url) ==
    IF ~(startswith(url, "http://") \/ startswith(url, "https://"))
    THEN "https://" \o url
    ELSE url

\* str.find of a character from position pos: its index, 0 if absent
RECURSIVE find(_, _, _)
find(s, chars, pos) ==
    IF pos > Len(s) THEN 0
    ELSE IF Ch(s, pos) \in chars THEN pos
    ELSE find(s, chars, pos + 1)

\* urllib.parse.urlparse(url).netloc (line 29) of a URL with a scheme: what
\* follows "scheme://" up to the first "/", "?" or "#".  (rest, like u and n
\* below, is bound through a one-element set so that it is computed once.)
netloc(url) ==
    CHOOSE n \in { IF ~startswith(rest, "//") THEN ""
                   ELSE LET e == find(rest, {"/", "?", "#"}, 3)
                        IN  IF e = 0 THEN SubSeq(rest, 3, Len(rest))
                            ELSE SubSeq(rest, 3, e - 1) :
                   rest \in {SubSeq(url, find(url, {":"}, 1) + 1, Len(url))} } : TRUE

\* urlparse raises ValueError("Invalid IPv6 URL") on unbalanced brackets
urlparse_raises(url) ==
    \E n \in {netloc(url)} : (find(n, {"["}, 1) # 0) # (find(n, {"]"}, 1) # 0)

\* the exception classes that derive from requests.exceptions.RequestException
RequestExceptions == {"ConnectionError", "Timeout", "HTTPError"}

\* every class the model raises derives from Exception
Exceptions == RequestExceptions \cup {"ValueError", "UnicodeDecodeError"}

\* what a call hands back to main: a result dict, or an exception that
\* leaves the function; gets are the targets of the requests.get calls made
Returned(result, gets) == [raised |-> FALSE, result |-> result, gets |-> gets]

Propagated(exc, gets) == [raised |-> TRUE, result |-> [status |-> "raised"], gets |-> gets]

\* the handlers with the second clause left out
except_request_only(exc, gets) ==
    IF exc.type \in RequestExceptions
    THEN Returned([status |-> "error", message |-> "Request failed: " \o exc.msg,
                   numbers |-> << >>], gets)
    ELSE Propagated(exc, gets)

\* the two except clauses (lines 51-54)
except(exc, gets) ==
    IF exc.type \in RequestExceptions
    THEN Returned([status |-> "error", message |-> "Request failed: " \o exc.msg,
                   numbers |-> << >>], gets)
    ELSE IF exc.type \in Exceptions
    THEN Returned([status |-> "error", message |-> "Error: " \o exc.msg,
                   numbers |-> << >>], gets)
    ELSE Propagated(exc, gets)

\* response.raise_for_status() (line 39): raises HTTPError on 4xx and 5xx
raises_for_status(status_code) == 400 <= status_code /\ status_code < 600

http_error_msg(status_code) ==
    ToString(status_code) \o (IF status_code < 500 THEN " Client Error" ELSE " Server Error")

\* the page bodies the modelled sites serve
PageBodies ==
    { "<p>Contact us: +1 (555) 123-4567 or 555.987.6543</p>",
      "Call 555-123-4567 or 555-123-4567",
      "<b>Est. 1234</b>" }

\* lines 42-47 on each modelled page body
page_numbers == [b \in PageBodies |-> cleaned_numbers(findall(get_text(b)))]

\* What the network does with one requests.get: raise a transport failure,
\* or deliver a response (status, body); parse_exc names an exception that
\* reading or parsing the body raises, "" if none.
NoNet == [kind |-> "none", msg |-> "", status_code |-> 0, body |-> "", parse_exc |-> ""]

NetOutcomes ==
    { [kind |-> "raise", msg |-> "Connection refused", status_code |-> 0, body |-> "",
       parse_exc |-> ""],
      [kind |-> "response", msg |-> "", status_code |-> 404, body |-> "", parse_exc |-> ""],
      [kind |-> "response", msg |-> "", status_code |-> 300,
       body |-> "Call 555-123-4567 or 555-123-4567", parse_exc |-> ""],
      [kind |-> "response", msg |-> "", status_code |-> 200, body |-> "",
       parse_exc |-> "UnicodeDecodeError"],
      [kind |-> "response", msg |-> "", status_code |-> 200,
       body |-> "<p>Contact us: +1 (555) 123-4567 or 555.987.6543</p>", parse_exc |-> ""],
      [kind |-> "response", msg |-> "", status_code |-> 200,
       body |-> "<b>Est. 1234</b>", parse_exc |-> ""] }

\* a fetcher that repeats a failed request once
extract_phone_numbers_retry(url, net) ==
    UNION {
        IF urlparse_raises(u)
        THEN {except([type |-> "ValueError", msg |-> "Invalid IPv6 URL"], << >>)}
        ELSE IF netloc(u) = ""
        THEN {Returned([status |-> "error", message |-> "Invalid URL", numbers |-> << >>],
                       << >>)}
        ELSE IF net.kind = "raise"
        THEN {except([type |-> "ConnectionError", msg |-> net.msg], << u, u >>)}
        ELSE IF raises_for_status(net.status_code)
        THEN {except([type |-> "HTTPError", msg |-> http_error_msg(net.status_code)],
                     << u, u >>)}
        ELSE IF net.parse_exc # ""
        THEN {except([type |-> net.parse_exc, msg |-> "cannot decode"], << u >>)}
        ELSE {Returned([status |-> "success", numbers |-> ns], << u >>) :
                ns \in page_numbers[net.body]}
        : u \in {normalize(url)} }

\* extract_phone_numbers(url) (lines 22-54) when the network answers net:
\* the possible outcomes (several when the set's order is open)
extract_phone_numbers(url, net) ==
    UNION {
        IF urlparse_raises(u)
        THEN {except([type |-> "ValueError", msg |-> "Invalid IPv6 URL"], << >>)}
        ELSE IF netloc(u) = ""
        THEN {Returned([status |-> "error", message |-> "Invalid URL", numbers |-> << >>],
                       << >>)}
        ELSE IF net.kind = "raise"
        THEN {except([type |-> "ConnectionError", msg |-> net.msg], << u >>)}
        ELSE IF raises_for_status(net.status_code)
        THEN {except([type |-> "HTTPError", msg |-> http_error_msg(net.status_code)],
                     << u >>)}
        ELSE IF net.parse_exc # ""
        THEN {except([type |-> net.parse_exc, msg |-> "cannot decode"], << u >>)}
        ELSE {Returned([status |-> "success", numbers |-> ns], << u >>) :
                ns \in page_numbers[net.body]}
        : u \in {normalize(url)} }

(***************************************************************************)
(* The batch loop of main (lines 103-143).  A cell of the table is a       *)
(* record: na says whether pd.isna holds of it, s is str() of it.          *)
(***************************************************************************)
Cell(s) == [na |-> FALSE, s |-> s]

NaN == [na |-> TRUE, s |-> "nan"]

\* the cells a URL column is filled from
URLCells ==
    { NaN, Cell(""), Cell("  "), Cell("example.com"), Cell(" http://example.com/c "),
      Cell("https://example.com"), Cell("/contact"), Cell("[::1") }

\* the column names of the uploaded tables
Layouts ==
    { << "URL" >>, << "Extraction_Status", "URL", "Phone_Numbers" >> }

\* the page texts the extractor is run on: up to n tokens, concatenated
Tokens ==
    { "555-123-4567", "+1 (555) 123-4567", "555.987.6543", "1234", "1234567",
      " ", "x", "Call " }

RECURSIVE TextsOf(_)
TextsOf(n) ==
    IF n = 0 THEN {""}
    ELSE LET P == TextsOf(n - 1) IN P \cup {t \o k : t \in P, k \in Tokens}

VARIABLES
    input_columns,      \* the column names of the uploaded table
    input_data,         \* its rows, each a sequence of cells
    url_column,         \* the column selected in the selectbox (line 94)
    df_columns,         \* df.columns
    df_data,            \* the rows of df
    pc,                 \* where main stands
    i,                  \* the number of the row the loop is at (from 1)
    results,            \* the list results (line 103)
    url,                \* the cell or cleaned URL of the row in hand
    extraction_result,  \* what extract_phone_numbers returned (line 118)
    net,                \* what the network did on the last call
    http_log,           \* the requests.get calls made: row and target
    fetch_calls,        \* the calls of extract_phone_numbers: row and argument
    text,               \* the page text the extractor works on (line 43)
    phone_numbers,      \* re.findall's list (line 46)
    numbers             \* cleaned_numbers (line 47)

vars ==
    << input_columns, input_data, url_column, df_columns, df_data, pc, i, results, url,
       extraction_result, net, http_log, fetch_calls, text, phone_numbers, numbers >>

table == << input_columns, input_data, url_column >>

extractor == << text, phone_numbers, numbers >>

IndexOf(seq, x) == CHOOSE k \in 1..Len(seq) : seq[k] = x

\* row[url_column] of row r (line 106)
url_cell(r) == df_data[r][IndexOf(df_columns, url_column)]

\* the test of line 108 with the strip() left out
is_blank_unstripped(cell) == cell.na \/ cell.s = ""

\* pd.isna(url) or str(url).strip() == '' (line 108)
is_blank(cell) == cell.na \/ strip(cell.s) = ""

\* the skip branch with the append left out
append_skipped_none(res, cell) == res

\* results.append of the skip branch (lines 109-113)
append_skipped(res, cell) ==
    Append(res, [url |-> cell, phone_numbers |-> "No URL provided", status |-> "skipped"])

\* extraction_result.get('message', 'Unknown error') (line 129)
get_message(er) == IF "message" \in DOMAIN er THEN er.message ELSE "Unknown error"

\* lines 120-130 with the count taken before the join and the separator ","
format_result_comma(er) ==
    IF er.status = "success"
    THEN IF Len(er.numbers) > 0
         THEN [phone_str |-> join(", ", er.numbers),
               status |-> "Found " \o ToString(Len(er.numbers)) \o " numbers"]
         ELSE [phone_str |-> "No numbers found", status |-> "no numbers"]
    ELSE [phone_str |-> "Error: " \o get_message(er), status |-> "error"]

\* lines 120-130 with the message recorded bare
format_result_bare(er) ==
    IF er.status = "success"
    THEN IF Len(er.numbers) > 0
         THEN [phone_str |-> join(" / ", er.numbers),
               status |-> "Found " \o ToString(Len(er.numbers)) \o " numbers"]
         ELSE [phone_str |-> "No numbers found", status |-> "no numbers"]
    ELSE [phone_str |-> get_message(er), status |-> "error"]

\* phone_str and status of a row (lines 120-130)
format_result(er) ==
    IF er.status = "success"
    THEN IF Len(er.numbers) > 0
         THEN [phone_str |-> join(" / ", er.numbers),
               status |-> "Found " \o ToString(Len(er.numbers)) \o " numbers"]
         ELSE [phone_str |-> "No numbers found", status |-> "no numbers"]
    ELSE [phone_str |-> "Error: " \o get_message(er), status |-> "error"]

\* df[name] = values (lines 142-143): pandas replaces the column of that
\* name where it stands, and appends a new column otherwise
set_column(columns, data, name, values) ==
    IF \E k \in 1..Len(columns) : columns[k] = name
    THEN [columns |-> columns,
          data |-> [r \in 1..Len(data) |->
                      [data[r] EXCEPT ![IndexOf(columns, name)] = Cell(values[r])]]]
    ELSE [columns |-> Append(columns, name),
          data |-> [r \in 1..Len(data) |-> Append(data[r], Cell(values[r]))]]

(***************************************************************************)
(* The batch run.                                                          *)
(***************************************************************************)
Init ==
    /\ input_columns \in Layouts
    /\ url_column = "URL"
    /\ \E n \in 0..MaxRows : \E cells \in [1..n -> URLCells] :
         input_data = [r \in 1..n |->
                         [c \in 1..Len(input_columns) |->
                            IF input_columns[c] = url_column THEN cells[r]
                            ELSE Cell("v" \o ToString(r))]]
    /\ df_columns = input_columns
    /\ df_data = input_data
    /\ pc = "loop"
    /\ i = 1
    /\ results = << >>
    /\ url = NaN
    /\ extraction_result = [status |-> "none"]
    /\ net = NoNet
    /\ http_log = << >>
    /\ fetch_calls = << >>
    /\ text = ""
    /\ phone_numbers = << >>
    /\ numbers = << >>

\* lines 105-114: a row without a URL
Skip ==
    /\ pc = "loop"
    /\ i <= Len(df_data)
    /\ is_blank(url_cell(i))
    /\ url' = url_cell(i)
    /\ results' = append_skipped(results, url_cell(i))
    /\ i' = i + 1
    /\ UNCHANGED << table, df_columns, df_data, pc, extraction_result, net, http_log,
                    fetch_calls, extractor >>

\* lines 105-118: a row with a URL, up to the return of extract_phone_numbers
CallFetcher ==
    /\ pc = "loop"
    /\ i <= Len(df_data)
    /\ ~is_blank(url_cell(i))
    /\ url' = Cell(strip(url_cell(i).s))
    /\ \E answer \in NetOutcomes :
         \E out \in extract_phone_numbers(url'.s, answer) :
            /\ net' = IF out.gets = << >> THEN NoNet ELSE answer
            /\ extraction_result' = out.result
            /\ http_log' = http_log \o [k \in 1..Len(out.gets) |->
                                          [row |-> i, target |-> out.gets[k]]]
            /\ pc' = IF out.raised THEN "aborted" ELSE "fetched"
    /\ fetch_calls' = Append(fetch_calls, [row |-> i, url |-> url'.s])
    /\ UNCHANGED << table, df_columns, df_data, i, results, extractor >>

\* lines 120-139: the row's result is recorded and the loop goes on
Record ==
    /\ pc = "fetched"
    /\ LET f == format_result(extraction_result)
       IN  results' = Append(results,
                [url |-> url, phone_numbers |-> f.phone_str, status |-> f.status])
    /\ i' = i + 1
    /\ pc' = "loop"
    /\ UNCHANGED << table, df_columns, df_data, url, extraction_result, net, http_log,
                    fetch_calls, extractor >>

\* lines 142-143: after the last row the two columns are set
AssignColumns ==
    /\ pc = "loop"
    /\ i > Len(df_data)
    /\ LET d1 == set_column(df_columns, df_data, "Phone_Numbers",
                            [k \in 1..Len(results) |-> results[k].phone_numbers])
           d2 == set_column(d1.columns, d1.data, "Extraction_Status",
                            [k \in 1..Len(results) |-> results[k].status])
       IN  /\ df_columns' = d2.columns
           /\ df_data' = d2.data
    /\ pc' = "done"
    /\ UNCHANGED << table, i, results, url, extraction_result, net, http_log,
                    fetch_calls, extractor >>

Next == Skip \/ CallFetcher \/ Record \/ AssignColumns

Spec == Init /\ [][Next]_vars

\* the batch runs over the tables that have the URL column alone
InitLoop == Init /\ input_columns = << "URL" >>

\* main is one sequential loop: a step that can be taken is taken
FairSpec == InitLoop /\ [][Next]_vars /\ WF_vars(Next)

(***************************************************************************)
(* The extractor alone (lines 43-47), on generated page texts.             *)
(***************************************************************************)
InitExtract ==
    /\ input_columns = << "URL" >>
    /\ url_column = "URL"
    /\ input_data = << >>
    /\ df_columns = input_columns
    /\ df_data = input_data
    /\ pc = "text"
    /\ i = 1
    /\ results = << >>
    /\ url = NaN
    /\ extraction_result = [status |-> "none"]
    /\ net = NoNet
    /\ http_log = << >>
    /\ fetch_calls = << >>
    /\ text \in TextsOf(MaxTokens)
    /\ phone_numbers = << >>
    /\ numbers = << >>

\* line 46
FindAll ==
    /\ pc = "text"
    /\ phone_numbers' = findall(text)
    /\ pc' = "matched"
    /\ UNCHANGED << table, df_columns, df_data, i, results, url, extraction_result, net,
                    http_log, fetch_calls, text, numbers >>

\* line 47
Clean ==
    /\ pc = "matched"
    /\ numbers' \in cleaned_numbers(phone_numbers)
    /\ pc' = "cleaned"
    /\ UNCHANGED << table, df_columns, df_data, i, results, url, extraction_result, net,
                    http_log, fetch_calls, text, phone_numbers >>

NextExtract == FindAll \/ Clean

ExtractSpec == InitExtract /\ [][NextExtract]_vars

(***************************************************************************)
(* Properties.                                                             *)
(***************************************************************************)
\* the URL cell of the k-th row of the uploaded table
InputCell(k) == input_data[k][IndexOf(input_columns, url_column)]

\* a cell that is missing, empty or made of whitespace only
BlankCell(cell) == cell.na \/ \A p \in 1..Len(cell.s) : Ch(cell.s, p) \in Whitespace

\* the number of requests.get calls made for row r
Requests(r) == Cardinality({k \in 1..Len(http_log) : http_log[k].row = r})

\* whether the call for this URL gets as far as requests.get (line 38)
reaches_get(u) == ~urlparse_raises(normalize(u)) /\ netloc(normalize(u)) # ""

\* the last recorded row went through extract_phone_numbers, whose return
\* value and network answer are still in extraction_result and net
LastRowFetched ==
    /\ pc \in {"loop", "done"}
    /\ Len(results) > 0
    /\ Len(fetch_calls) > 0
    /\ fetch_calls[Len(fetch_calls)].row = Len(results)

LastResult == results[Len(results)]

\* C1: the results list holds one Row Result per row consumed, the k-th
\* for the k-th input row, and all N of them when the batch is over.
C1_OneResultPerRowInOrder ==
    pc \in {"loop", "fetched", "done"} =>
        /\ Len(results) = i - 1
        /\ pc = "done" => Len(results) = Len(input_data)
        /\ \A k \in 1..Len(results) :
              /\ results[k].url = IF BlankCell(InputCell(k)) THEN InputCell(k)
                                  ELSE Cell(strip(InputCell(k).s))
              /\ (results[k].status = "skipped") = BlankCell(InputCell(k))

C1_Witness ==
    /\ pc = "done"
    /\ Len(input_data) = 2
    /\ results[1].status = "error"
    /\ results[2].status = "skipped"
    /\ results[1].url # results[2].url

\* C2: whatever the outcome of a row's fetch, the loop records it and goes
\* on to the next row, and the batch ends with a result for every row.
C2_BatchReachesLastRow ==
    /\ [][pc = "fetched" => (pc' = "loop" /\ i' = i + 1
                             /\ Len(results') = Len(results) + 1)]_vars
    /\ <>(pc = "done" /\ Len(results) = Len(input_data))

C2_Witness ==
    /\ pc = "done"
    /\ Len(results) = 2
    /\ results[1].status = "error"
    /\ results[1].phone_numbers = "Error: Error: cannot decode"
    /\ results[2].status = "Found 2 numbers"

\* C3: a row whose URL cell is missing, empty or whitespace-only is
\* recorded as skipped / "No URL provided", and neither the fetcher nor
\* the network is called for it.
C3_BlankRowsSkipped ==
    pc \in {"loop", "fetched", "done"} =>
        \A k \in 1..Len(results) :
            BlankCell(InputCell(k)) =>
                /\ results[k].status = "skipped"
                /\ results[k].phone_numbers = "No URL provided"
                /\ Requests(k) = 0
                /\ \A c \in 1..Len(fetch_calls) : fetch_calls[c].row # k

C3_Witness ==
    /\ pc = "done"
    /\ Len(results) = 2
    /\ InputCell(1) = Cell("  ")
    /\ InputCell(2) = NaN
    /\ results[1].status = "skipped"
    /\ results[2].status = "skipped"
    /\ http_log = << >>

\* C4: a successful fetch with candidate list L is recorded as
\* "Found n numbers" with the entries joined by " / " when L has n >= 1
\* entries, and as "no numbers" / "No numbers found" when L is empty.
C4_SuccessFormatting ==
    (LastRowFetched /\ extraction_result.status = "success") =>
        LET L == extraction_result.numbers
        IN  /\ Len(L) = 0 => /\ LastResult.status = "no numbers"
                             /\ LastResult.phone_numbers = "No numbers found"
            /\ Len(L) >= 1 =>
                  LastResult.status = "Found " \o ToString(Len(L)) \o " numbers"
            /\ Len(L) = 1 => LastResult.phone_numbers = L[1]
            /\ Len(L) = 2 => LastResult.phone_numbers = L[1] \o " / " \o L[2]
            /\ Len(L) <= 2

C4_Witness ==
    /\ LastRowFetched
    /\ Len(results) = 2
    /\ results[1].status = "no numbers"
    /\ results[2].status = "Found 2 numbers"
    /\ results[2].phone_numbers = "555.987.6543 / +1 (555) 123-4567"

\* the fetch of the last recorded row failed: no host, a transport
\* failure, an error status, or another exception
NoHost == ~reaches_get(url.s)

TransportFailure == reaches_get(url.s) /\ net.kind = "raise"

OtherException == reaches_get(url.s) /\ net.kind = "response" /\ net.parse_exc # ""

ErrorRecorded ==
    /\ LastResult.status = "error"
    /\ "message" \in DOMAIN extraction_result
    /\ LastResult.phone_numbers = "Error: " \o extraction_result.message
    /\ extraction_result.numbers = << >>

C6_TargetNormalized ==
    \A k \in 1..Len(http_log) :
        LET u == strip(InputCell(http_log[k].row).s)
        IN  IF startswith(u, "http://") \/ startswith(u, "https://")
            THEN http_log[k].target = u
            ELSE http_log[k].target = "https://" \o u

C6_Witness ==
    /\ Len(http_log) = 2
    /\ InputCell(1) = Cell("example.com")
    /\ http_log[1].target = "https://example.com"
    /\ InputCell(2) = Cell(" http://example.com/c ")
    /\ http_log[2].target = "http://example.com/c"

\* C7 as stated: every call of the fetcher makes exactly one request.
C7_ExactlyOneRequest ==
    \A c \in 1..Len(fetch_calls) : Requests(fetch_calls[c].row) = 1

\* C7 amended: every call of the fetcher makes at most one requests.get
\* call, exactly one when the normalized URL parses and has a host, none
\* otherwise; a failed call is not repeated.
C7_AtMostOneRequest ==
    \A c \in 1..Len(fetch_calls) :
        /\ Requests(fetch_calls[c].row) <= 1
        /\ (Requests(fetch_calls[c].row) = 1) = reaches_get(fetch_calls[c].url)

C7_Witness ==
    /\ pc = "done"
    /\ Len(fetch_calls) = 2
    /\ Requests(1) = 0
    /\ results[1].phone_numbers = "Error: Invalid URL"
    /\ Requests(2) = 1
    /\ results[2].phone_numbers = "Error: Request failed: Connection refused"

\* the text holds one run of four digits and no other digit
BareFourDigits(t) ==
    \E p \in 1..Len(t) - 3 :
        \A q \in 1..Len(t) : (Ch(t, q) \in Digits) = (p <= q /\ q <= p + 3)

\* C8: no match of trimmed length 7 or less is returned, every returned
\* candidate has trimmed length at least 8, and a bare four-digit run in
\* otherwise digit-free text yields no candidate.
C8_NoShortCandidates ==
    pc = "cleaned" =>
        /\ \A k \in 1..Len(numbers) : Len(strip(numbers[k])) >= 8
        /\ \A m \in 1..Len(phone_numbers) :
              Len(strip(phone_numbers[m])) <= 7 =>
                  \A k \in 1..Len(numbers) : numbers[k] # strip(phone_numbers[m])
        /\ BareFourDigits(text) => numbers = << >>

C8_Witness ==
    /\ pc = "cleaned"
    /\ text = "Call 1234 "
    /\ BareFourDigits(text)
    /\ numbers = << >>

\* C9: the candidate list holds no string twice, and every match longer
\* than 7 characters is in it exactly once.
C9_NoDuplicates ==
    pc = "cleaned" =>
        /\ \A a, b \in 1..Len(numbers) : numbers[a] = numbers[b] => a = b
        /\ \A m \in 1..Len(phone_numbers) :
              Len(phone_numbers[m]) > 7 =>
                  Cardinality({k \in 1..Len(numbers) :
                                 numbers[k] = strip(phone_numbers[m])}) = 1

C9_Witness ==
    /\ pc = "cleaned"
    /\ text = "555-123-4567x555-123-4567"
    /\ phone_numbers = << "555-123-4567", "555-123-4567" >>
    /\ numbers = << "555-123-4567" >>

\* C10: the output table is the input's columns, in order and with their
\* values, followed by Phone_Numbers and Extraction_Status, and has the
\* input's number of rows.
C10_ColumnsAppended ==
    pc = "done" =>
        /\ df_columns = input_columns \o << "Phone_Numbers", "Extraction_Status" >>
        /\ Len(df_data) = Len(input_data)
        /\ \A r \in 1..Len(df_data) :
              /\ Len(df_data[r]) = Len(input_columns) + 2
              /\ \A c \in 1..Len(input_columns) : df_data[r][c] = input_data[r][c]

====
